---- MODULE Spec2Model ----
(***************************************************************************)
(* Job lifecycle engine of qiskit-runtime-server: the JobManager (job      *)
(* store, FIFO queue, single worker thread) and the SessionManager         *)
(* (session store), with request threads calling into both.                *)
(*                                                                         *)
(* Every `with self._lock:` block of the source is one atomic step; code   *)
(* between two blocks that touches no shared state is folded into the      *)
(* adjacent step.  Python objects are references: jobInfo and sessionInfo  *)
(* are the heaps of JobInfo / SessionInfo objects, jobs and sessions are   *)
(* the dictionaries' keys.                                                 *)
(***************************************************************************)
EXTENDS Integers, Sequences, FiniteSets, TLC

\* ------------------------------------------------------------------ bounds
MaxJobs == 2
MaxSessions == 1
MaxThreads == 2
MaxTime == 2

JobIds == 1..MaxJobs
SessionIds == 1..MaxSessions
Threads == 1..MaxThreads

\* ------------------------------------------------------------ option type
\* Python's `None` / a present value
None == <<>>
Some(x) == <<x>>
IsSome(o) == o # <<>>
Get(o) == o[1]

\* -------------------------------------------------------------- constants
\* JobStatus (models.py)
QUEUED == "QUEUED"
RUNNING == "RUNNING"
COMPLETED == "COMPLETED"
FAILED == "FAILED"
CANCELLED == "CANCELLED"
JobStatus == {QUEUED, RUNNING, COMPLETED, FAILED, CANCELLED}
TerminalStatus == {COMPLETED, FAILED, CANCELLED}

\* SessionMode (models.py)
SessionMode == {"dedicated", "batch"}

\* executors registry handed to JobManager.__init__ (app.py default)
executors == {<<"aer">>}

\* metadata names the fake provider resolves (_backend_exists)
KnownMetadata == {<<"fake_manila">>, <<"fake_lima">>}

\* A backend name is a string; it is modelled as its sequence of tokens so
\* that the split at the first "@" is computed, not assumed.
BackendNames ==
    { <<"fake_manila", "@", "aer">>,
      <<"fake_lima", "@", "aer">>,
      <<"fake_manila">> }

\* program kinds submitted by clients ("bogus" is not a known kind)
ProgramIds == {"sampler", "bogus"}

\* max_ttl values offered to create_session
TtlValues == {1}

\* error texts (the ids/names interpolated into them are left out)
ErrInvalidBackend == "Invalid backend name"
ErrSessionNotFound == "Session not found"
ErrBackendMismatch == "Backend mismatch"
ErrNotAccepting == "Session is not accepting new jobs"
ErrAddFailed == "Failed to add job to session"
ErrExecutorNotFound == "Executor not found"
ErrUnknownProgram == "Unknown program_id"
ErrExecutor == "executor raised"
MsgCancelledByUser == "Cancelled by user"
MsgCancelledBySession == "Cancelled due to session cancellation"

\* --------------------------------------------------------- pure functions
\* index of the first "@" token of b, 0 when there is none
RECURSIVE FirstAt(_, _)
FirstAt(b, i) ==
    IF i > Len(b) THEN 0
    ELSE IF b[i] = "@" THEN i
    ELSE FirstAt(b, i + 1)

\* BackendMetadataProvider.parse_backend_name: None or Some(<<metadata, executor>>)
parse_backend_name(b) ==
    LET at == FirstAt(b, 1) IN
    IF at = 0 THEN None
    ELSE LET metadata_name == SubSeq(b, 1, at - 1)
             executor_name == SubSeq(b, at + 1, Len(b))
         IN  IF executor_name \notin executors THEN None
             ELSE IF metadata_name \notin KnownMetadata THEN None
             ELSE Some(<<metadata_name, executor_name>>)

\* list without one element (del dict[key] on the key order)
RECURSIVE Remove(_, _)
Remove(s, x) ==
    IF s = <<>> THEN <<>>
    ELSE IF Head(s) = x THEN Tail(s)
    ELSE <<Head(s)>> \o Remove(Tail(s), x)

Range(s) == { s[i] : i \in 1..Len(s) }

\* ------------------------------------------------------------------ state
VARIABLES
    jobs,           \* JobManager.jobs: keys of the dict, in insertion order
    jobInfo,        \* JobInfo objects, by job id (allocated ids only)
    queue,          \* JobManager._queue (FIFO)
    shutdown_flag,  \* JobManager._shutdown_flag
    wpc,            \* worker thread: position in _worker_loop/_execute_job
    wjob,           \* worker thread: job_id it dequeued
    sessions,       \* SessionManager.sessions: keys of the dict
    sessionInfo,    \* SessionInfo objects, by session id
    cj,             \* request threads: position and locals inside create_job
    ret,            \* what the last finished call returned (or raised)
    observe,        \* whether ret is recorded (fixed by the initial state)
    now,            \* datetime.now(UTC)
    pushed,         \* history: every id put on the queue, in order
    calledAfter,    \* history: by job id, how many ids had been put on the
                    \* queue when the create_job call that made it began
    started,        \* history: every id that became RUNNING, in order
    calls,          \* history (recorded with ret): by session id, the calls
                    \* that returned true for it
    held,           \* a caller's variable: the object get_job or get_session
                    \* returned to it, and a copy of its fields at that moment
    job_lock,       \* JobManager._lock: the thread that holds it, or None
    session_lock    \* SessionManager._lock: the thread that holds it, or None

vars == <<jobs, jobInfo, queue, shutdown_flag, wpc, wjob, sessions,
          sessionInfo, cj, ret, observe, now, pushed,
          calledAfter, started, calls, held, job_lock, session_lock>>

jobVars == <<jobs, jobInfo, queue, pushed, calledAfter>>
workerVars == <<wpc, wjob, shutdown_flag, started>>
sessionVars == <<sessions, sessionInfo>>

\* ids handed out so far: uuid4() never repeats, so ids are taken in order
AllocatedJobs == DOMAIN jobInfo
AllocatedSessions == DOMAIN sessionInfo

\* seen: Len(pushed) when the call began (history, copied to calledAfter)
IdleCall == [pc |-> "idle", program_id |-> "", backend_name |-> <<>>,
             session_id |-> None, job_id |-> None, seen |-> 0]

NoRet == [op |-> "", arg |-> None, val |-> None, err |-> None]

Init ==
    /\ jobs = <<>>
    /\ jobInfo = <<>>
    /\ queue = <<>>
    /\ shutdown_flag = FALSE
    /\ wpc = "loop"
    /\ wjob = None
    /\ sessions = {}
    /\ sessionInfo = <<>>
    /\ cj = [t \in Threads |-> IdleCall]
    /\ ret = NoRet
    /\ observe = FALSE
    /\ now = 0
    /\ pushed = <<>>
    /\ calledAfter = <<>>
    /\ started = <<>>
    /\ calls = <<>>
    /\ job_lock = None
    /\ session_lock = None
    /\ held = None

\* a call returning val / a call raising ValueError(msg)
Returned(op, arg, val) ==
    IF observe THEN [op |-> op, arg |-> arg, val |-> val, err |-> None] ELSE NoRet
Raised(op, arg, msg) ==
    IF observe THEN [op |-> op, arg |-> arg, val |-> None, err |-> Some(msg)] ELSE NoRet

\* the call `name` returned true for the session: close_session,
\* cancel_session, and cancel_session_jobs when it follows cancel_session
Called(session_id, name) ==
    IF observe THEN [calls EXCEPT ![session_id] = @ \cup {name}] ELSE calls

\* ids a caller may pass: the allocated ones and one that never exists
JobArgs == 1..(MaxJobs + 1)
SessionArgs == 1..(MaxSessions + 1)

\* ---------------------------------------------------------- SessionManager
\* SessionManager.create_session
create_session(mode, backend_name, max_ttl) ==
    /\ session_lock = None
    /\ Len(sessionInfo) < MaxSessions
    /\ LET session_id == Len(sessionInfo) + 1
           session_info == [mode |-> mode,
                            backend_name |-> backend_name,
                            max_ttl |-> max_ttl,
                            created_at |-> now,
                            accepting_jobs |-> TRUE,
                            active |-> TRUE,
                            job_ids |-> <<>>]
       IN  /\ sessionInfo' = Append(sessionInfo, session_info)
           /\ sessions' = sessions \cup {session_id}
           /\ ret' = Returned("create_session", None, Some(session_id))
           /\ calls' = IF observe THEN Append(calls, {}) ELSE calls
    /\ UNCHANGED <<jobVars, workerVars, cj, now, observe, held, job_lock, session_lock>>

\* mutant of update_session: the active flag follows accepting_jobs
update_session_sets_active(session_id, accepting_jobs) ==
    /\ IF session_id \notin sessions
       THEN /\ UNCHANGED sessionInfo
            /\ ret' = Returned("update_session", Some(session_id), Some(FALSE))
       ELSE /\ sessionInfo' = [sessionInfo EXCEPT
                                 ![session_id].accepting_jobs = accepting_jobs,
                                 ![session_id].active = accepting_jobs]
            /\ ret' = Returned("update_session", Some(session_id), Some(TRUE))
    /\ UNCHANGED <<sessions, jobVars, workerVars, cj, now, observe, calls, held, job_lock, session_lock>>

\* SessionManager.update_session
update_session(session_id, accepting_jobs) ==
    /\ session_lock = None
    /\ IF session_id \notin sessions
       THEN /\ UNCHANGED sessionInfo
            /\ ret' = Returned("update_session", Some(session_id), Some(FALSE))
       ELSE /\ sessionInfo' = [sessionInfo EXCEPT
                                 ![session_id].accepting_jobs = accepting_jobs]
            /\ ret' = Returned("update_session", Some(session_id), Some(TRUE))
    /\ UNCHANGED <<sessions, jobVars, workerVars, cj, now, observe, calls, held, job_lock, session_lock>>

\* mutant of close_session: only the accepting_jobs flag is cleared
close_session_keeps_active(session_id) ==
    /\ IF session_id \notin sessions
       THEN /\ UNCHANGED <<sessionInfo, calls>>
            /\ ret' = Returned("close_session", Some(session_id), Some(FALSE))
       ELSE /\ sessionInfo' = [sessionInfo EXCEPT
                                 ![session_id].accepting_jobs = FALSE]
            /\ ret' = Returned("close_session", Some(session_id), Some(TRUE))
            /\ calls' = Called(session_id, "close_session")
    /\ UNCHANGED <<sessions, jobVars, workerVars, cj, now, observe, held, job_lock, session_lock>>

\* mutant of close_session: the waiting jobs of the session are cancelled
close_session_cancels_jobs(session_id) ==
    /\ IF session_id \notin sessions
       THEN /\ UNCHANGED <<sessionInfo, calls, jobInfo>>
            /\ ret' = Returned("close_session", Some(session_id), Some(FALSE))
       ELSE /\ sessionInfo' = [sessionInfo EXCEPT
                                 ![session_id].accepting_jobs = FALSE,
                                 ![session_id].active = FALSE]
            /\ jobInfo' = [j \in DOMAIN jobInfo |->
                             IF /\ j \in Range(sessionInfo[session_id].job_ids)
                                /\ jobInfo[j].status = QUEUED
                             THEN [jobInfo[j] EXCEPT !.status = CANCELLED,
                                                     !.completed_at = Some(now)]
                             ELSE jobInfo[j]]
            /\ ret' = Returned("close_session", Some(session_id), Some(TRUE))
            /\ calls' = Called(session_id, "close_session")
    /\ UNCHANGED <<sessions, jobs, queue, pushed, calledAfter, workerVars, cj, now, observe, held, job_lock, session_lock>>

\* SessionManager.close_session
close_session(session_id) ==
    /\ session_lock = None
    /\ IF session_id \notin sessions
       THEN /\ UNCHANGED <<sessionInfo, calls>>
            /\ ret' = Returned("close_session", Some(session_id), Some(FALSE))
       ELSE /\ sessionInfo' = [sessionInfo EXCEPT
                                 ![session_id].accepting_jobs = FALSE,
                                 ![session_id].active = FALSE]
            /\ ret' = Returned("close_session", Some(session_id), Some(TRUE))
            /\ calls' = Called(session_id, "close_session")
    /\ UNCHANGED <<sessions, jobVars, workerVars, cj, now, observe, held, job_lock, session_lock>>

\* SessionManager.cancel_session
cancel_session(session_id) ==
    /\ session_lock = None
    /\ IF session_id \notin sessions
       THEN /\ UNCHANGED <<sessionInfo, calls>>
            /\ ret' = Returned("cancel_session", Some(session_id), Some(FALSE))
       ELSE /\ sessionInfo' = [sessionInfo EXCEPT
                                 ![session_id].accepting_jobs = FALSE,
                                 ![session_id].active = FALSE]
            /\ ret' = Returned("cancel_session", Some(session_id), Some(TRUE))
            /\ calls' = Called(session_id, "cancel_session")
    /\ UNCHANGED <<sessions, jobVars, workerVars, cj, now, observe, held, job_lock, session_lock>>

\* mutant of add_job_to_session_ok: the accepting_jobs flag is not looked at
add_job_to_session_ok_ignores_flag(session_id) ==
    session_id \in sessions

\* SessionManager.add_job_to_session: the value it returns
add_job_to_session_ok(session_id) ==
    /\ session_id \in sessions
    /\ sessionInfo[session_id].accepting_jobs

\* mutant of add_job_to_session_store: the id is inserted at the front
add_job_to_session_store_prepends(session_id, job_id) ==
    IF add_job_to_session_ok(session_id)
    THEN [sessionInfo EXCEPT
            ![session_id].job_ids = <<job_id>> \o @]
    ELSE sessionInfo

\* SessionManager.add_job_to_session: the store after the call
add_job_to_session_store(session_id, job_id) ==
    IF add_job_to_session_ok(session_id)
    THEN [sessionInfo EXCEPT
            ![session_id].job_ids = Append(@, job_id)]
    ELSE sessionInfo

\* mutant of validate_job_backend: only the session's existence is checked
validate_job_backend_any(session_id, backend_name) ==
    session_id \in sessions

\* SessionManager.validate_job_backend
validate_job_backend(session_id, backend_name) ==
    IF session_id \notin sessions THEN FALSE
    ELSE sessionInfo[session_id].backend_name = backend_name

\* mutant of ExpiredSessions: a session expires when its max_ttl is reached
ExpiredSessions_inclusive ==
    { s \in sessions : now - sessionInfo[s].created_at >= sessionInfo[s].max_ttl }

\* SessionManager.cleanup_expired_sessions
ExpiredSessions ==
    { s \in sessions : now - sessionInfo[s].created_at > sessionInfo[s].max_ttl }

\* mutant of cleanup_expired_sessions: the jobs of an expired session are
\* deleted with it
cleanup_expired_sessions_with_jobs ==
    /\ sessions' = sessions \ ExpiredSessions
    /\ jobs' = SelectSeq(jobs, LAMBDA j :
                   \/ jobInfo[j].session_id = None
                   \/ Get(jobInfo[j].session_id) \notin ExpiredSessions)
    /\ ret' = Returned("cleanup_expired_sessions", None,
                       Some(Cardinality(ExpiredSessions)))
    /\ UNCHANGED <<sessionInfo, jobInfo, queue, pushed, calledAfter, workerVars, cj, now, observe, calls, held, job_lock, session_lock>>

cleanup_expired_sessions ==
    /\ session_lock = None
    /\ sessions' = sessions \ ExpiredSessions
    /\ ret' = Returned("cleanup_expired_sessions", None,
                       Some(Cardinality(ExpiredSessions)))
    /\ UNCHANGED <<sessionInfo, jobVars, workerVars, cj, now, observe, calls, held, job_lock, session_lock>>

\* --------------------------------------------------------------- JobManager
\* create_job calls that have not yet taken their job id
PendingCalls == { t \in Threads : cj[t].pc \in {"validate_backend", "check_accepting", "store"} }

\* JobManager.create_job, lines 130-140: parse the backend name, get_session
create_job_begin(t, program_id, backend_name, session_id) ==
    /\ (session_id # None /\ parse_backend_name(backend_name) # None)
          => session_lock = None
    /\ cj[t].pc = "idle"
    /\ Len(jobInfo) + Cardinality(PendingCalls) < MaxJobs
    /\ LET call == [pc |-> "store", program_id |-> program_id,
                    backend_name |-> backend_name,
                    session_id |-> session_id, job_id |-> None,
                    seen |-> Len(pushed)]
       IN  IF parse_backend_name(backend_name) = None
           THEN /\ ret' = Raised("create_job", session_id, ErrInvalidBackend)
                /\ UNCHANGED cj
           ELSE IF session_id = None
           THEN /\ cj' = [cj EXCEPT ![t] = call]
                /\ UNCHANGED ret
           ELSE IF Get(session_id) \notin sessions
           THEN /\ ret' = Raised("create_job", session_id, ErrSessionNotFound)
                /\ UNCHANGED cj
           ELSE /\ cj' = [cj EXCEPT ![t] = [call EXCEPT !.pc = "validate_backend"]]
                /\ UNCHANGED ret
    /\ UNCHANGED <<jobVars, workerVars, sessionVars, now, observe, calls, held, job_lock, session_lock>>

\* JobManager.create_job, lines 142-147: validate_job_backend
create_job_validate(t) ==
    /\ session_lock = None
    /\ cj[t].pc = "validate_backend"
    /\ IF validate_job_backend(Get(cj[t].session_id), cj[t].backend_name)
       THEN /\ cj' = [cj EXCEPT ![t].pc = "check_accepting"]
            /\ UNCHANGED ret
       ELSE /\ cj' = [cj EXCEPT ![t] = IdleCall]
            /\ ret' = Raised("create_job", cj[t].session_id, ErrBackendMismatch)
    /\ UNCHANGED <<jobVars, workerVars, sessionVars, now, observe, calls, held, job_lock, session_lock>>

\* mutant of create_job_check_accepting: the check comes after the job was
\* stored, and the failing call leaves the record behind
create_job_check_accepting_after_store(t) ==
    /\ cj[t].pc = "check_accepting"
    /\ IF sessionInfo[Get(cj[t].session_id)].accepting_jobs
       THEN /\ cj' = [cj EXCEPT ![t].pc = "store"]
            /\ UNCHANGED <<ret, jobs, jobInfo, calledAfter>>
       ELSE /\ cj' = [cj EXCEPT ![t] = IdleCall]
            /\ ret' = Raised("create_job", cj[t].session_id, ErrNotAccepting)
            /\ jobInfo' = Append(jobInfo, [program_id |-> cj[t].program_id,
                                           backend_name |-> cj[t].backend_name,
                                           session_id |-> cj[t].session_id,
                                           status |-> QUEUED,
                                           created_at |-> now,
                                           started_at |-> None,
                                           completed_at |-> None,
                                           result_data |-> None,
                                           error_message |-> None])
            /\ jobs' = Append(jobs, Len(jobInfo) + 1)
            /\ calledAfter' = Append(calledAfter, cj[t].seen)
    /\ UNCHANGED <<queue, pushed, workerVars, sessionVars, now, observe, calls, held, job_lock, session_lock>>

\* JobManager.create_job, lines 149-151: read accepting_jobs of the
\* SessionInfo object get_session returned (the live object, no lock held)
create_job_check_accepting(t) ==
    /\ cj[t].pc = "check_accepting"
    /\ IF sessionInfo[Get(cj[t].session_id)].accepting_jobs
       THEN /\ cj' = [cj EXCEPT ![t].pc = "store"]
            /\ UNCHANGED ret
       ELSE /\ cj' = [cj EXCEPT ![t] = IdleCall]
            /\ ret' = Raised("create_job", cj[t].session_id, ErrNotAccepting)
    /\ UNCHANGED <<jobVars, workerVars, sessionVars, now, observe, calls, held, job_lock, session_lock>>

\* mutant of create_job_store: the job store lock is kept after the record
\* was stored (add_job_to_session would be called inside the locked block)
create_job_store_keeps_lock(t) ==
    /\ job_lock = None
    /\ cj[t].pc = "store"
    /\ LET job_id == Len(jobInfo) + 1
           job_info == [program_id |-> cj[t].program_id,
                        backend_name |-> cj[t].backend_name,
                        session_id |-> cj[t].session_id,
                        status |-> QUEUED,
                        created_at |-> now,
                        started_at |-> None,
                        completed_at |-> None,
                        result_data |-> None,
                        error_message |-> None]
       IN  /\ jobInfo' = Append(jobInfo, job_info)
           /\ jobs' = Append(jobs, job_id)
           /\ calledAfter' = Append(calledAfter, cj[t].seen)
           /\ cj' = [cj EXCEPT ![t].job_id = Some(job_id),
                               ![t].pc = IF cj[t].session_id = None
                                         THEN "put" ELSE "add_to_session"]
    /\ job_lock' = IF cj[t].session_id = None THEN None ELSE Some(t)
    /\ UNCHANGED <<queue, pushed, workerVars, sessionVars, ret, now, observe, calls, held, session_lock>>

\* mutant of create_job_store: the record is stored as already started
create_job_store_started(t) ==
    /\ cj[t].pc = "store"
    /\ LET job_id == Len(jobInfo) + 1
           job_info == [program_id |-> cj[t].program_id,
                        backend_name |-> cj[t].backend_name,
                        session_id |-> cj[t].session_id,
                        status |-> QUEUED,
                        created_at |-> now,
                        started_at |-> Some(now),
                        completed_at |-> None,
                        result_data |-> None,
                        error_message |-> None]
       IN  /\ jobInfo' = Append(jobInfo, job_info)
           /\ jobs' = Append(jobs, job_id)
           /\ calledAfter' = Append(calledAfter, cj[t].seen)
           /\ cj' = [cj EXCEPT ![t].job_id = Some(job_id),
                               ![t].pc = IF cj[t].session_id = None
                                         THEN "put" ELSE "add_to_session"]
    /\ UNCHANGED <<queue, pushed, workerVars, sessionVars, ret, now, observe, calls, held, job_lock, session_lock>>

\* JobManager.create_job, lines 153-170: new id, new JobInfo, store it
create_job_store(t) ==
    /\ job_lock = None
    /\ cj[t].pc = "store"
    /\ LET job_id == Len(jobInfo) + 1
           job_info == [program_id |-> cj[t].program_id,
                        backend_name |-> cj[t].backend_name,
                        session_id |-> cj[t].session_id,
                        status |-> QUEUED,
                        created_at |-> now,
                        started_at |-> None,
                        completed_at |-> None,
                        result_data |-> None,
                        error_message |-> None]
       IN  /\ jobInfo' = Append(jobInfo, job_info)
           /\ jobs' = Append(jobs, job_id)
           /\ calledAfter' = Append(calledAfter, cj[t].seen)
           /\ cj' = [cj EXCEPT ![t].job_id = Some(job_id),
                               ![t].pc = IF cj[t].session_id = None
                                         THEN "put" ELSE "add_to_session"]
    /\ UNCHANGED <<queue, pushed, workerVars, sessionVars, ret, now, observe, calls, held, job_lock, session_lock>>

\* mutant of create_job_add: the value add_job_to_session returns is ignored
create_job_add_ignores_result(t) ==
    /\ cj[t].pc = "add_to_session"
    /\ sessionInfo' = add_job_to_session_store(Get(cj[t].session_id), Get(cj[t].job_id))
    /\ cj' = [cj EXCEPT ![t].pc = "put"]
    /\ UNCHANGED <<sessions, jobVars, workerVars, ret, now, observe, calls, held, job_lock, session_lock>>

\* JobManager.create_job, lines 172-177: add_job_to_session
create_job_add(t) ==
    /\ session_lock = None
    /\ cj[t].pc = "add_to_session"
    /\ sessionInfo' = add_job_to_session_store(Get(cj[t].session_id), Get(cj[t].job_id))
    /\ cj' = [cj EXCEPT ![t].pc = IF add_job_to_session_ok(Get(cj[t].session_id))
                                  THEN "put" ELSE "rollback"]
    /\ UNCHANGED <<sessions, jobVars, workerVars, ret, now, observe, calls, held, job_lock, session_lock>>

\* mutant of create_job_rollback: the error is raised without the clean-up
create_job_rollback_keeps_record(t) ==
    /\ cj[t].pc = "rollback"
    /\ cj' = [cj EXCEPT ![t] = IdleCall]
    /\ ret' = Raised("create_job", cj[t].session_id, ErrAddFailed)
    /\ UNCHANGED <<jobVars, workerVars, sessionVars, now, observe, calls, held, job_lock, session_lock>>

\* JobManager.create_job, lines 178-181: the session refused, delete the job
create_job_rollback(t) ==
    /\ job_lock = None
    /\ cj[t].pc = "rollback"
    /\ jobs' = Remove(jobs, Get(cj[t].job_id))
    /\ cj' = [cj EXCEPT ![t] = IdleCall]
    /\ ret' = Raised("create_job", cj[t].session_id, ErrAddFailed)
    /\ UNCHANGED <<jobInfo, queue, pushed, calledAfter, workerVars, sessionVars, now, observe, calls, held, job_lock, session_lock>>

\* mutant of create_job_put: the id goes to the front of the queue
create_job_put_front(t) ==
    /\ cj[t].pc = "put"
    /\ queue' = <<Get(cj[t].job_id)>> \o queue
    /\ pushed' = Append(pushed, Get(cj[t].job_id))
    /\ cj' = [cj EXCEPT ![t] = IdleCall]
    /\ ret' = Returned("create_job", cj[t].session_id, cj[t].job_id)
    /\ UNCHANGED <<jobs, jobInfo, calledAfter, workerVars, sessionVars, now, observe, calls, held, job_lock, session_lock>>

\* JobManager.create_job, lines 183-192: queue.put, return the id
create_job_put(t) ==
    /\ cj[t].pc = "put"
    /\ queue' = Append(queue, Get(cj[t].job_id))
    /\ pushed' = Append(pushed, Get(cj[t].job_id))
    /\ cj' = [cj EXCEPT ![t] = IdleCall]
    /\ ret' = Returned("create_job", cj[t].session_id, cj[t].job_id)
    /\ UNCHANGED <<jobs, jobInfo, calledAfter, workerVars, sessionVars, now, observe, calls, held, job_lock, session_lock>>

\* mutant of cancel_job: a JobInfo object is found although its id was
\* deleted from the dict
cancel_job_finds_deleted(job_id) ==
    /\ IF job_id \notin DOMAIN jobInfo
       THEN /\ UNCHANGED jobInfo
            /\ ret' = Returned("cancel_job", Some(job_id), Some(FALSE))
       ELSE IF jobInfo[job_id].status = QUEUED
       THEN /\ jobInfo' = [jobInfo EXCEPT
                             ![job_id].status = CANCELLED,
                             ![job_id].completed_at = Some(now),
                             ![job_id].error_message = Some(MsgCancelledByUser)]
            /\ ret' = Returned("cancel_job", Some(job_id), Some(TRUE))
       ELSE /\ UNCHANGED jobInfo
            /\ ret' = Returned("cancel_job", Some(job_id), Some(FALSE))
    /\ UNCHANGED <<jobs, queue, pushed, calledAfter, workerVars, sessionVars, cj, now, observe, calls, held, job_lock, session_lock>>

\* mutant of cancel_job: a RUNNING job is cancelled like a QUEUED one
cancel_job_any_active(job_id) ==
    /\ IF job_id \notin Range(jobs)
       THEN /\ UNCHANGED jobInfo
            /\ ret' = Returned("cancel_job", Some(job_id), Some(FALSE))
       ELSE IF jobInfo[job_id].status \in {QUEUED, RUNNING}
       THEN /\ jobInfo' = [jobInfo EXCEPT
                             ![job_id].status = CANCELLED,
                             ![job_id].completed_at = Some(now),
                             ![job_id].error_message = Some(MsgCancelledByUser)]
            /\ ret' = Returned("cancel_job", Some(job_id), Some(TRUE))
       ELSE /\ UNCHANGED jobInfo
            /\ ret' = Returned("cancel_job", Some(job_id), Some(FALSE))
    /\ UNCHANGED <<jobs, queue, pushed, calledAfter, workerVars, sessionVars, cj, now, observe, calls, held, job_lock, session_lock>>

\* JobManager.cancel_job
cancel_job(job_id) ==
    /\ job_lock = None
    /\ IF job_id \notin Range(jobs)
       THEN /\ UNCHANGED jobInfo
            /\ ret' = Returned("cancel_job", Some(job_id), Some(FALSE))
       ELSE IF jobInfo[job_id].status = QUEUED
       THEN /\ jobInfo' = [jobInfo EXCEPT
                             ![job_id].status = CANCELLED,
                             ![job_id].completed_at = Some(now),
                             ![job_id].error_message = Some(MsgCancelledByUser)]
            /\ ret' = Returned("cancel_job", Some(job_id), Some(TRUE))
       ELSE /\ UNCHANGED jobInfo
            /\ ret' = Returned("cancel_job", Some(job_id), Some(FALSE))
    /\ UNCHANGED <<jobs, queue, pushed, calledAfter, workerVars, sessionVars, cj, now, observe, calls, held, job_lock, session_lock>>

\* mutant of SessionQueuedJobs: the session_id of the job is not compared
SessionQueuedJobs_any_session(session_id) ==
    { j \in Range(jobs) : jobInfo[j].status = QUEUED }

\* JobManager.cancel_session_jobs: the jobs it changes
SessionQueuedJobs(session_id) ==
    { j \in Range(jobs) : /\ jobInfo[j].session_id = Some(session_id)
                          /\ jobInfo[j].status = QUEUED }

\* JobManager.cancel_session_jobs
cancel_session_jobs(session_id) ==
    /\ job_lock = None
    /\ jobInfo' = [j \in DOMAIN jobInfo |->
                     IF j \in SessionQueuedJobs(session_id)
                     THEN [jobInfo[j] EXCEPT
                             !.status = CANCELLED,
                             !.completed_at = Some(now),
                             !.error_message = Some(MsgCancelledBySession)]
                     ELSE jobInfo[j]]
    /\ ret' = Returned("cancel_session_jobs", Some(session_id),
                       Some(Cardinality(SessionQueuedJobs(session_id))))
    /\ calls' = IF session_id \in DOMAIN calls /\ "cancel_session" \in calls[session_id]
                THEN Called(session_id, "cancel_session_jobs")
                ELSE calls
    /\ UNCHANGED <<jobs, queue, pushed, calledAfter, workerVars, sessionVars, cj, now, observe, held, job_lock, session_lock>>

\* JobManager.get_job: the JobInfo object of the dict, or None
get_job(job_id) ==
    IF job_id \in Range(jobs) THEN Some(jobInfo[job_id]) ELSE None

\* mutant of list_jobs: the ids are taken from the queue, not from the dict
list_jobs_from_queue ==
    [j \in Range(queue) |-> jobInfo[j]]

\* JobManager.list_jobs: dict(self.jobs), a new mapping of the same objects
list_jobs ==
    [j \in Range(jobs) |-> jobInfo[j]]

\* SessionManager.get_session: the SessionInfo object of the dict, or None
get_session(session_id) ==
    IF session_id \in sessions THEN Some(sessionInfo[session_id]) ELSE None

\* a caller keeps what get_job returned: a reference to the JobInfo object
\* (ref), here with a copy of the fields it had at the call (seen)
caller_get_job(job_id) ==
    /\ job_lock = None
    /\ get_job(job_id) # None
    /\ held' = Some([kind |-> "job", ref |-> job_id, seen |-> Get(get_job(job_id))])
    /\ UNCHANGED <<jobVars, workerVars, sessionVars, cj, ret, now, observe, calls, job_lock, session_lock>>

\* a caller keeps what get_session returned: a reference to the SessionInfo
\* object
caller_get_session(session_id) ==
    /\ session_lock = None
    /\ get_session(session_id) # None
    /\ held' = Some([kind |-> "session", ref |-> session_id,
                      seen |-> Get(get_session(session_id))])
    /\ UNCHANGED <<jobVars, workerVars, sessionVars, cj, ret, now, observe, calls, job_lock, session_lock>>

\* what the caller reads through the reference it holds
HeldValue ==
    IF Get(held).kind = "job" THEN jobInfo[Get(held).ref]
    ELSE sessionInfo[Get(held).ref]

\* JobManager.get_queue_length, the loop over self.jobs.values(): how many
\* of the jobs ids are QUEUED or RUNNING and, when an executor name is
\* given, resolve to that executor
RECURSIVE CountActive(_, _)
CountActive(ids, executor_name) ==
    IF ids = <<>> THEN 0
    ELSE LET job == jobInfo[Head(ids)]
             parsed == parse_backend_name(job.backend_name)
             counted ==
                /\ job.status \in {QUEUED, RUNNING}
                /\ \/ executor_name = None
                   \/ parsed # None /\ Get(parsed)[2] = Get(executor_name)
         IN  (IF counted THEN 1 ELSE 0) + CountActive(Tail(ids), executor_name)

\* mutant of get_queue_length: the size of the FIFO queue is returned
get_queue_length_physical(executor_name) ==
    Len(queue)

\* JobManager.get_queue_length
get_queue_length(executor_name) ==
    CountActive(jobs, executor_name)

\* mutant of shutdown: the queue is emptied and waiting jobs are cancelled
shutdown_flushes_queue ==
    /\ shutdown_flag' = TRUE
    /\ queue' = <<>>
    /\ jobInfo' = [j \in DOMAIN jobInfo |->
                     IF j \in Range(queue) /\ jobInfo[j].status = QUEUED
                     THEN [jobInfo[j] EXCEPT !.status = CANCELLED,
                                             !.completed_at = Some(now)]
                     ELSE jobInfo[j]]
    /\ ret' = Returned("shutdown", None, None)
    /\ UNCHANGED <<jobs, pushed, calledAfter, wpc, wjob, started, sessionVars, cj, now, observe, calls, held, job_lock, session_lock>>

\* JobManager.shutdown: set the flag (the bounded join changes no state)
shutdown ==
    /\ shutdown_flag' = TRUE
    /\ ret' = Returned("shutdown", None, None)
    /\ UNCHANGED <<jobVars, wpc, wjob, started, sessionVars, cj, now, observe, calls, held, job_lock, session_lock>>

\* ------------------------------------------------------------ worker thread
\* _worker_loop, line 86: `while not self._shutdown_flag.is_set()`
worker_check_shutdown ==
    /\ wpc = "loop"
    /\ wpc' = IF shutdown_flag THEN "stopped" ELSE "get"
    /\ UNCHANGED <<jobVars, wjob, shutdown_flag, started, sessionVars, cj, ret, now, observe, calls, held, job_lock, session_lock>>

\* mutant of worker_get: the id is read but stays in the queue
worker_get_peek ==
    /\ wpc = "get"
    /\ IF queue = <<>>
       THEN /\ wpc' = "loop"
            /\ UNCHANGED <<queue, wjob>>
       ELSE /\ wpc' = "lookup"
            /\ wjob' = Some(Head(queue))
            /\ UNCHANGED queue
    /\ UNCHANGED <<jobs, jobInfo, pushed, calledAfter, shutdown_flag, started, sessionVars, cj, ret, now, observe, calls, held, job_lock, session_lock>>

\* mutant of worker_get: the newest id is taken (a LIFO queue)
worker_get_lifo ==
    /\ wpc = "get"
    /\ IF queue = <<>>
       THEN /\ wpc' = "loop"
            /\ UNCHANGED <<queue, wjob>>
       ELSE /\ wpc' = "lookup"
            /\ wjob' = Some(queue[Len(queue)])
            /\ queue' = SubSeq(queue, 1, Len(queue) - 1)
    /\ UNCHANGED <<jobs, jobInfo, pushed, calledAfter, shutdown_flag, started, sessionVars, cj, ret, now, observe, calls, held, job_lock, session_lock>>

\* _worker_loop, lines 89-92: queue.get(timeout=1.0); Empty -> continue
worker_get ==
    /\ wpc = "get"
    /\ IF queue = <<>>
       THEN /\ wpc' = "loop"
            /\ UNCHANGED <<queue, wjob>>
       ELSE /\ wpc' = "lookup"
            /\ wjob' = Some(Head(queue))
            /\ queue' = Tail(queue)
    /\ UNCHANGED <<jobs, jobInfo, pushed, calledAfter, shutdown_flag, started, sessionVars, cj, ret, now, observe, calls, held, job_lock, session_lock>>

\* mutant of execute_job_lookup: the CANCELLED test is inverted
execute_job_lookup_inverted ==
    /\ wpc = "lookup"
    /\ wpc' = IF Get(wjob) \notin Range(jobs) THEN "loop"
              ELSE IF jobInfo[Get(wjob)].status # CANCELLED THEN "loop"
              ELSE "mark_running"
    /\ wjob' = IF wpc' = "loop" THEN None ELSE wjob
    /\ UNCHANGED <<jobVars, shutdown_flag, started, sessionVars, cj, ret, now, observe, calls, held, job_lock, session_lock>>

\* _execute_job, lines 203-211: first locked block, then the lock is released
execute_job_lookup ==
    /\ job_lock = None
    /\ wpc = "lookup"
    /\ wpc' = IF Get(wjob) \notin Range(jobs) THEN "loop"
              ELSE IF jobInfo[Get(wjob)].status = CANCELLED THEN "loop"
              ELSE "mark_running"
    /\ wjob' = IF wpc' = "loop" THEN None ELSE wjob
    /\ UNCHANGED <<jobVars, shutdown_flag, started, sessionVars, cj, ret, now, observe, calls, held, job_lock, session_lock>>

\* mutant of execute_job_mark_running: the job store lock is kept while the
\* job is executed
execute_job_mark_running_holds_lock ==
    /\ job_lock = None
    /\ wpc = "mark_running"
    /\ jobInfo' = [jobInfo EXCEPT ![Get(wjob)].status = RUNNING,
                                  ![Get(wjob)].started_at = Some(now)]
    /\ started' = Append(started, Get(wjob))
    /\ wpc' = "executing"
    /\ job_lock' = Some("worker")
    /\ UNCHANGED <<jobs, queue, pushed, calledAfter, wjob, shutdown_flag, sessionVars, cj, ret, now, observe, calls, held, session_lock>>

\* _execute_job, lines 213-216: second locked block, status RUNNING
execute_job_mark_running ==
    /\ job_lock = None
    /\ wpc = "mark_running"
    /\ jobInfo' = [jobInfo EXCEPT ![Get(wjob)].status = RUNNING,
                                  ![Get(wjob)].started_at = Some(now)]
    /\ started' = Append(started, Get(wjob))
    /\ wpc' = "executing"
    /\ UNCHANGED <<jobs, queue, pushed, calledAfter, wjob, shutdown_flag, sessionVars, cj, ret, now, observe, calls, held, job_lock, session_lock>>

\* mutant of DispatchError: the program kind is not looked at
DispatchError_any_program(job_info) ==
    LET parsed == parse_backend_name(job_info.backend_name) IN
    IF parsed = None THEN Some(ErrInvalidBackend)
    ELSE IF Get(parsed)[2] \notin executors THEN Some(ErrExecutorNotFound)
    ELSE None

\* _execute_job, lines 225-252: what stops the job before the Executor is
\* called; None when the Executor is called
DispatchError(job_info) ==
    LET parsed == parse_backend_name(job_info.backend_name) IN
    IF parsed = None THEN Some(ErrInvalidBackend)
    ELSE IF Get(parsed)[2] \notin executors THEN Some(ErrExecutorNotFound)
    ELSE IF job_info.program_id \in {"sampler", "estimator"} THEN None
    ELSE Some(ErrUnknownProgram)

\* _execute_job, lines 238-260: the Executor returned, status COMPLETED
execute_job_completed ==
    /\ job_lock = None
    /\ wpc = "executing"
    /\ DispatchError(jobInfo[Get(wjob)]) = None
    /\ jobInfo' = [jobInfo EXCEPT ![Get(wjob)].status = COMPLETED,
                                  ![Get(wjob)].completed_at = Some(now),
                                  ![Get(wjob)].result_data = Some("result")]
    /\ wpc' = "loop"
    /\ wjob' = None
    /\ UNCHANGED <<jobs, queue, pushed, calledAfter, shutdown_flag, started, sessionVars, cj, ret, now, observe, calls, held, job_lock, session_lock>>

\* mutant of execute_job_failed: the exception leaves the worker loop
execute_job_failed_stops_worker ==
    /\ wpc = "executing"
    /\ LET e == DispatchError(jobInfo[Get(wjob)])
           message == IF e = None THEN ErrExecutor ELSE Get(e)
       IN  jobInfo' = [jobInfo EXCEPT ![Get(wjob)].status = FAILED,
                                      ![Get(wjob)].completed_at = Some(now),
                                      ![Get(wjob)].error_message = Some(message)]
    /\ wpc' = "stopped"
    /\ wjob' = None
    /\ UNCHANGED <<jobs, queue, pushed, calledAfter, shutdown_flag, started, sessionVars, cj, ret, now, observe, calls, held, job_lock, session_lock>>

\* mutant of execute_job_failed: the except block forgets the status
execute_job_failed_keeps_running ==
    /\ wpc = "executing"
    /\ LET e == DispatchError(jobInfo[Get(wjob)])
           message == IF e = None THEN ErrExecutor ELSE Get(e)
       IN  jobInfo' = [jobInfo EXCEPT ![Get(wjob)].completed_at = Some(now),
                                      ![Get(wjob)].error_message = Some(message)]
    /\ wpc' = "loop"
    /\ wjob' = None
    /\ UNCHANGED <<jobs, queue, pushed, calledAfter, shutdown_flag, started, sessionVars, cj, ret, now, observe, calls, held, job_lock, session_lock>>

\* _execute_job, lines 262-268: an exception (of the dispatch, or raised by
\* the Executor), status FAILED
execute_job_failed ==
    /\ job_lock = None
    /\ wpc = "executing"
    /\ LET e == DispatchError(jobInfo[Get(wjob)])
           message == IF e = None THEN ErrExecutor ELSE Get(e)
       IN  jobInfo' = [jobInfo EXCEPT ![Get(wjob)].status = FAILED,
                                      ![Get(wjob)].completed_at = Some(now),
                                      ![Get(wjob)].error_message = Some(message)]
    /\ wpc' = "loop"
    /\ wjob' = None
    /\ UNCHANGED <<jobs, queue, pushed, calledAfter, shutdown_flag, started, sessionVars, cj, ret, now, observe, calls, held, job_lock, session_lock>>

\* the wall clock advances
Tick ==
    /\ now < MaxTime
    /\ now' = now + 1
    /\ UNCHANGED <<jobVars, workerVars, sessionVars, cj, ret, observe, calls, held, job_lock, session_lock>>

\* ----------------------------------------------------------- specification
SessionArg == {None} \cup { Some(s) : s \in SessionArgs }

\* backend names: one that resolves, one that resolves to another backend,
\* one without "@executor"
ValidBackend == <<"fake_manila", "@", "aer">>
OtherBackend == <<"fake_lima", "@", "aer">>
InvalidBackend == <<"fake_manila">>

Worker ==
    \/ worker_check_shutdown
    \/ worker_get
    \/ execute_job_lookup
    \/ execute_job_mark_running
    \/ execute_job_completed
    \/ execute_job_failed

\* create_job called by the threads T with programs P and backend names B
CreateJob(T, P, B) ==
    \/ \E t \in T, p \in P, b \in B, s \in SessionArg : create_job_begin(t, p, b, s)
    \/ \E t \in T : create_job_validate(t)
    \/ \E t \in T : create_job_check_accepting(t)
    \/ \E t \in T : create_job_store(t)
    \/ \E t \in T : create_job_add(t)
    \/ \E t \in T : create_job_rollback(t)
    \/ \E t \in T : create_job_put(t)

Cancels ==
    \/ \E j \in JobArgs : cancel_job(j)
    \/ \E s \in SessionArgs : cancel_session_jobs(s)

\* the session store's calls, sessions bound to the backend names B
SessionCalls(M, B) ==
    \/ \E m \in M, b \in B, ttl \in TtlValues : create_session(m, b, ttl)
    \/ \E s \in SessionArgs, a \in BOOLEAN : update_session(s, a)
    \/ \E s \in SessionArgs : close_session(s)
    \/ \E s \in SessionArgs : cancel_session(s)

\* Spec: every interleaving of the worker, MaxThreads concurrent create_job
\* calls, the cancel calls, the session calls and shutdown.
Next ==
    \/ Worker
    \/ CreateJob(Threads, {"sampler"}, {ValidBackend, InvalidBackend})
    \/ Cancels
    \/ SessionCalls(SessionMode, {ValidBackend})
    \/ shutdown

Spec == Init /\ [][Next]_vars

\* SpecCalls: the same system with return values recorded in ret, one
\* create_job call at a time (calls do not overlap), all program kinds and
\* backend names.
InitCalls ==
    /\ jobs = <<>>
    /\ jobInfo = <<>>
    /\ queue = <<>>
    /\ shutdown_flag = FALSE
    /\ wpc = "loop"
    /\ wjob = None
    /\ sessions = {}
    /\ sessionInfo = <<>>
    /\ cj = [t \in Threads |-> IdleCall]
    /\ ret = NoRet
    /\ observe = TRUE
    /\ now = 0
    /\ pushed = <<>>
    /\ calledAfter = <<>>
    /\ started = <<>>
    /\ calls = <<>>
    /\ job_lock = None
    /\ session_lock = None
    /\ held = None

NextCalls ==
    \/ Worker
    \/ CreateJob({1}, {"sampler"}, BackendNames)
    \/ Cancels
    \/ SessionCalls({"batch"}, {ValidBackend})

SpecCalls == InitCalls /\ [][NextCalls]_vars

\* SpecLive: Spec with a worker that keeps taking steps and Executor calls
\* that return or raise.
SpecLive == Init /\ [][Next]_vars /\ WF_vars(Worker)

\* SpecFair: SpecLive without shutdown.
NextFair ==
    \/ Worker
    \/ CreateJob(Threads, {"sampler"}, {ValidBackend, InvalidBackend})
    \/ Cancels
    \/ SessionCalls(SessionMode, {ValidBackend})

SpecFair == Init /\ [][NextFair]_vars /\ WF_vars(Worker)

\* SpecPrograms: one create_job call at a time, with every program kind a
\* client may send (create_job does not look at program_id).
NextPrograms ==
    \/ Worker
    \/ CreateJob({1}, ProgramIds, {ValidBackend})
    \/ Cancels
    \/ SessionCalls({"batch"}, {ValidBackend})

SpecPrograms == Init /\ [][NextPrograms]_vars

\* SpecSweep: one create_job call at a time, with the clock advancing and
\* the TTL sweep of the session store called at any moment.
NextSweep ==
    \/ Worker
    \/ CreateJob({1}, {"sampler"}, {ValidBackend})
    \/ Cancels
    \/ SessionCalls({"batch"}, {ValidBackend})
    \/ cleanup_expired_sessions
    \/ Tick

SpecSweep == Init /\ [][NextSweep]_vars

\* SpecSweepCalls: sessions are created and swept while jobs are created and
\* executed; the value each call returned is on record, the worker is fair.
NextSweepCalls ==
    \/ Worker
    \/ CreateJob({1}, {"sampler"}, {ValidBackend})
    \/ \E ttl \in TtlValues : create_session("batch", ValidBackend, ttl)
    \/ cleanup_expired_sessions
    \/ Tick

SpecSweepCalls == InitCalls /\ [][NextSweepCalls]_vars /\ WF_vars(Worker)

\* SpecReads: one create_job call at a time, and a caller that keeps the
\* object a getter returned.
NextReads ==
    \/ Worker
    \/ CreateJob({1}, {"sampler"}, {ValidBackend})
    \/ Cancels
    \/ SessionCalls({"batch"}, {ValidBackend})
    \/ \E j \in JobArgs : caller_get_job(j)
    \/ \E s \in SessionArgs : caller_get_session(s)

SpecReads == Init /\ [][NextReads]_vars

\* ------------------------------------------------------------------ claims
status(j) == jobInfo[j].status

\* position of x in the list s (0 when absent)
RECURSIVE IndexFrom(_, _, _)
IndexFrom(s, x, i) ==
    IF i > Len(s) THEN 0
    ELSE IF s[i] = x THEN i
    ELSE IndexFrom(s, x, i + 1)
Pos(s, x) == IndexFrom(s, x, 1)

LegalTransitions ==
    { <<QUEUED, RUNNING>>, <<RUNNING, COMPLETED>>, <<RUNNING, FAILED>>,
      <<QUEUED, CANCELLED>> }

\* C1: every status change of a job is QUEUED->RUNNING, RUNNING->COMPLETED,
\* RUNNING->FAILED or QUEUED->CANCELLED (so no job leaves CANCELLED).
C1_OnlyLegalTransitions ==
    [][\A j \in DOMAIN jobInfo :
          status(j) # jobInfo'[j].status
             => <<status(j), jobInfo'[j].status>> \in LegalTransitions]_vars

\* C2: once a job's status is COMPLETED, FAILED or CANCELLED, no step changes
\* any field of that job.
C2_TerminalIsFinal ==
    [][\A j \in DOMAIN jobInfo :
          status(j) \in TerminalStatus => jobInfo'[j] = jobInfo[j]]_vars

\* C3: at most one job of the store has status RUNNING.
RunningJobs == { j \in Range(jobs) : status(j) = RUNNING }

C3_AtMostOneRunning == Cardinality(RunningJobs) <= 1

\* a job of a session is RUNNING while another submitted job waits
C3_Witness ==
    \E a \in Range(jobs), b \in Range(jobs) :
        /\ status(a) = RUNNING
        /\ jobInfo[a].session_id # None
        /\ status(b) = QUEUED
        /\ b \in Range(queue)

\* C5: a job that a cancel call marked (it carries the cancel message) is
\* never dispatched: it has no started_at and its status is CANCELLED.
CancelMessages == { Some(MsgCancelledByUser), Some(MsgCancelledBySession) }

C5_CancelledNeverDispatched ==
    \A j \in DOMAIN jobInfo :
        jobInfo[j].error_message \in CancelMessages
           => /\ status(j) = CANCELLED
              /\ jobInfo[j].started_at = None

\* C6: when a job becomes RUNNING, every job put on the queue before it has
\* already reached a terminal status (so jobs start in queue order, one after
\* the other).
C6_FifoStart ==
    [][\A b \in DOMAIN jobInfo :
          (status(b) # RUNNING /\ jobInfo'[b].status = RUNNING)
             => /\ Pos(pushed, b) > 0
                /\ \A i \in 1..(Pos(pushed, b) - 1) :
                      status(pushed[i]) \in TerminalStatus]_vars

\* two jobs ran, the second one is running after the first one ended
C6_Witness ==
    /\ Len(pushed) >= 2
    /\ started = SubSeq(pushed, 1, 2)
    /\ status(pushed[1]) \in {COMPLETED, FAILED}
    /\ status(pushed[2]) = RUNNING

\* C4: cancel_job(id) returns true exactly when the job is in the store with
\* status QUEUED; then, in the same step, the job becomes CANCELLED with
\* completed_at set and the message 'Cancelled by user' and nothing else
\* changes; otherwise it returns false and both stores and the queue are
\* unchanged.
C4_CancelJob ==
    [][\A j \in JobArgs :
          cancel_job(j) =>
             LET wasQueued == j \in Range(jobs) /\ status(j) = QUEUED IN
             /\ ret'.op = "cancel_job" /\ ret'.val = Some(wasQueued)
             /\ UNCHANGED <<jobs, queue, sessions, sessionInfo>>
             /\ wasQueued =>
                  jobInfo' = [jobInfo EXCEPT
                                ![j] = [@ EXCEPT
                                          !.status = CANCELLED,
                                          !.completed_at = Some(now),
                                          !.error_message = Some(MsgCancelledByUser)]]
             /\ ~wasQueued => jobInfo' = jobInfo]_vars

\* cancel_job has returned true for a queued job and false for a running one
C4_Witness ==
    /\ ret.op = "cancel_job"
    /\ ret.val = Some(TRUE)
    /\ status(Get(ret.arg)) = CANCELLED
    /\ jobInfo[Get(ret.arg)].started_at = None
    /\ \E k \in Range(jobs) : status(k) = RUNNING

\* C7 as stated: ids are in the same order in the job store, in a session's
\* member list and in the order they were put on the queue.
C7_SameOrderEverywhere ==
    \A a \in Range(pushed), b \in Range(pushed) :
        Pos(pushed, a) < Pos(pushed, b)
           => /\ Pos(jobs, a) < Pos(jobs, b)
              /\ \A s \in DOMAIN sessionInfo :
                    (Pos(sessionInfo[s].job_ids, a) > 0 /\ Pos(sessionInfo[s].job_ids, b) > 0)
                       => Pos(sessionInfo[s].job_ids, a) < Pos(sessionInfo[s].job_ids, b)

\* C7 amended: when the create_job call of a had returned before the call of
\* b began, a is before b in the job store, in a session's member list, in
\* the queue and in the order of the puts.
ReturnedBeforeCalled(a, b) ==
    /\ Pos(pushed, a) > 0
    /\ Pos(pushed, a) <= calledAfter[b]

Before(s, a, b) ==
    (Pos(s, a) > 0 /\ Pos(s, b) > 0) => Pos(s, a) < Pos(s, b)

C7_OrderOfSuccessiveCalls ==
    \A a \in DOMAIN jobInfo, b \in DOMAIN jobInfo :
        ReturnedBeforeCalled(a, b)
           => /\ Before(jobs, a, b)
              /\ Before(queue, a, b)
              /\ Before(pushed, a, b)
              /\ \A s \in DOMAIN sessionInfo : Before(sessionInfo[s].job_ids, a, b)

\* two jobs of one session wait in the queue, the second one created by a
\* call that began after the first call had returned
C7_Witness ==
    /\ Len(queue) = 2
    /\ ReturnedBeforeCalled(queue[1], queue[2])
    /\ \E s \in sessions : sessionInfo[s].job_ids = queue

\* C8: a RUNNING job eventually is COMPLETED or FAILED, and no step takes a
\* RUNNING job to any other status.
C8_RunningEnds ==
    /\ \A j \in JobIds :
          (j \in DOMAIN jobInfo /\ status(j) = RUNNING)
             ~> (j \in DOMAIN jobInfo /\ status(j) \in {COMPLETED, FAILED})
    /\ [][\A j \in DOMAIN jobInfo :
             status(j) = RUNNING
                => jobInfo'[j].status \in {RUNNING, COMPLETED, FAILED}]_vars

\* a job of a closed session is RUNNING after shutdown was called
C8_Witness ==
    \E j \in Range(jobs) :
        /\ status(j) = RUNNING
        /\ shutdown_flag
        /\ jobInfo[j].session_id # None
        /\ ~sessionInfo[Get(jobInfo[j].session_id)].active

\* C9: every job whose create_job call returned an id eventually has a
\* terminal status.
C9_AdmittedJobsEnd ==
    \A j \in JobIds :
        (j \in Range(pushed))
           ~> (j \in DOMAIN jobInfo /\ status(j) \in TerminalStatus)

\* both admitted jobs ended, one executed and one cancelled
C9_Witness ==
    /\ Len(pushed) = 2
    /\ \E a \in Range(pushed), b \in Range(pushed) :
          /\ status(a) \in {COMPLETED, FAILED}
          /\ status(b) = CANCELLED
    /\ queue = <<>>
    /\ wjob = None

\* the create_job calls in progress
InFlight == { t \in Threads : cj[t].pc # "idle" }

\* C10 as stated: a create_job call (with a backend name that resolves) that
\* fails while the session it references is not accepting jobs fails with
\* the 'not accepting' error.
C10_FailsWithNotAccepting ==
    [][(/\ ret' # ret
        /\ ret'.op = "create_job"
        /\ ret'.err # None
        /\ ret'.err # Some(ErrInvalidBackend)
        /\ ret'.arg # None
        /\ Get(ret'.arg) \in sessions
        /\ ~sessionInfo[Get(ret'.arg)].accepting_jobs)
          => ret'.err = Some(ErrNotAccepting)]_vars

\* C10 amended: add_job_to_session returns false and leaves the member list
\* unchanged when the session is missing or not accepting; a member list
\* only grows in a state where accepting_jobs is true; a create_job call
\* that reads accepting_jobs as false fails with the 'not accepting' error;
\* and a failed create_job call leaves no Job record (every record of the
\* store belongs to an admitted job or to a call in progress).
C10_Admission ==
    /\ [][\A t \in Threads :
             create_job_add(t) =>
                LET s == Get(cj[t].session_id)
                    accepting == s \in sessions /\ sessionInfo[s].accepting_jobs
                IN  /\ ~accepting => (sessionInfo' = sessionInfo /\ cj'[t].pc = "rollback")
                    /\ accepting =>
                         (/\ sessionInfo'[s].job_ids =
                               Append(sessionInfo[s].job_ids, Get(cj[t].job_id))
                          /\ cj'[t].pc = "put")]_vars
    /\ [][\A s \in DOMAIN sessionInfo :
             sessionInfo'[s].job_ids # sessionInfo[s].job_ids
                => (s \in sessions /\ sessionInfo[s].accepting_jobs)]_vars
    /\ [][\A t \in Threads :
             (create_job_check_accepting(t)
                 /\ ~sessionInfo[Get(cj[t].session_id)].accepting_jobs)
                => /\ ret' = Raised("create_job", cj[t].session_id, ErrNotAccepting)
                   /\ cj'[t].pc = "idle"
                   /\ UNCHANGED <<jobs, jobInfo, queue, sessionInfo>>]_vars
    /\ [](Range(jobs) \subseteq
             (Range(pushed) \cup { Get(cj[t].job_id) : t \in { u \in InFlight : cj[u].job_id # None } }))

\* a create_job call on a session that stopped accepting has just failed with
\* the 'not accepting' error, the session already has a member
C10_Witness ==
    /\ ret.op = "create_job"
    /\ ret.err = Some(ErrNotAccepting)
    /\ ~sessionInfo[Get(ret.arg)].accepting_jobs
    /\ Len(sessionInfo[Get(ret.arg)].job_ids) = 1
    /\ Range(jobs) = Range(sessionInfo[Get(ret.arg)].job_ids)

\* the errors create_job raises before it stores anything
ValidationErrors ==
    { Some(ErrInvalidBackend), Some(ErrSessionNotFound),
      Some(ErrBackendMismatch), Some(ErrNotAccepting) }

\* C11: a create_job call that fails with a validation error returns no job
\* id, and neither the failing step nor any earlier step of the call changes
\* the job store, the queue or a session's member list.
C11_ValidationFailureChangesNothing ==
    /\ [][(ret' # ret /\ ret'.op = "create_job" /\ ret'.err \in ValidationErrors)
             => /\ ret'.val = None
                /\ UNCHANGED <<jobs, jobInfo, queue, pushed, sessions, sessionInfo>>
                /\ \A t \in Threads : cj'[t].pc # cj[t].pc => cj'[t] = IdleCall]_vars
    /\ [][\A t \in Threads :
             (cj[t].pc \in {"idle", "validate_backend", "check_accepting"}
                 /\ cj'[t] # cj[t])
                => UNCHANGED <<jobs, jobInfo, queue, pushed, sessions, sessionInfo>>]_vars

\* a call with another backend than the session's has just failed while a
\* job of that session waits in the queue
C11_Witness ==
    /\ ret.op = "create_job"
    /\ ret.err = Some(ErrBackendMismatch)
    /\ Len(jobs) = 1
    /\ queue = jobs
    /\ sessionInfo[Get(ret.arg)].job_ids = jobs

\* the member lists of all sessions together
Members == UNION { Range(sessionInfo[s].job_ids) : s \in DOMAIN sessionInfo }

\* C12: when the session is not accepting at the moment create_job calls
\* add_job_to_session (it passed the accepting check before), the call goes
\* to the clean-up, which removes the record from the job store and raises;
\* the id of such a call is never put on the queue and never in a member
\* list.
C12_RaceWindowRollback ==
    /\ [][\A t \in Threads :
             (create_job_add(t)
                 /\ ~sessionInfo[Get(cj[t].session_id)].accepting_jobs)
                => /\ cj'[t].pc = "rollback"
                   /\ sessionInfo' = sessionInfo]_vars
    /\ [][\A t \in Threads :
             create_job_rollback(t)
                => /\ ret' = Raised("create_job", cj[t].session_id, ErrAddFailed)
                   /\ ret'.val = None
                   /\ Get(cj[t].job_id) \in Range(jobs)
                   /\ Get(cj[t].job_id) \notin Range(jobs')
                   /\ cj'[t] = IdleCall]_vars
    /\ [](\A t \in Threads :
             cj[t].pc = "rollback"
                => Get(cj[t].job_id) \notin (Range(pushed) \cup Range(queue) \cup Members))
    /\ [](\A j \in DOMAIN jobInfo :
             j \notin Range(jobs)
                => j \notin (Range(pushed) \cup Range(queue) \cup Members))

\* a session with one queued member was closed while a second create_job
\* call was between its accepting check and add_job_to_session; that call
\* has failed and its record is gone
C12_Witness ==
    /\ ret.op = "create_job"
    /\ ret.err = Some(ErrAddFailed)
    /\ ~sessionInfo[Get(ret.arg)].active
    /\ Len(jobInfo) = 2
    /\ jobs = <<1>>
    /\ pushed = <<1>>
    /\ sessionInfo[Get(ret.arg)].job_ids = <<1>>

\* C13: when the id of a job with a session_id is put on the queue, the id
\* is in the member list of that session and its record is in the job
\* store; so this is true of every id that was ever put on the queue.
C13_QueuedJobsAreAttributed ==
    /\ [][\A t \in Threads :
             (create_job_put(t) /\ cj[t].session_id # None)
                => LET j == Get(cj[t].job_id)
                       s == Get(cj[t].session_id)
                   IN  /\ j \in Range(sessionInfo[s].job_ids)
                       /\ j \in Range(jobs)
                       /\ jobInfo[j].session_id = Some(s)]_vars
    /\ [](\A j \in Range(pushed) :
             /\ j \in Range(jobs)
             /\ jobInfo[j].session_id # None
                  => j \in Range(sessionInfo[Get(jobInfo[j].session_id)].job_ids))

\* a job of a session was put on the queue although the session was closed
\* between add_job_to_session and the put
C13_Witness ==
    \E j \in Range(queue) :
        /\ jobInfo[j].session_id # None
        /\ ~sessionInfo[Get(jobInfo[j].session_id)].active
        /\ jobInfo[j].status = QUEUED
        /\ \E k \in DOMAIN jobInfo : k \notin Range(jobs)

\* C14: every session with active = false has accepting_jobs = false.
C14_InactiveImpliesNotAccepting ==
    \A s \in sessions :
        ~sessionInfo[s].active => ~sessionInfo[s].accepting_jobs

\* C15: once a session is inactive (close_session or cancel_session returned
\* true for it), its member list does not grow, and a create_job call that
\* references it returns a job id only if that id was admitted (put in the
\* member list) before the session became inactive.
C15_ClosedSessionAdmitsNothing ==
    [][\A s \in sessions :
          ~sessionInfo[s].active
             => /\ sessionInfo'[s].job_ids = sessionInfo[s].job_ids
                /\ (/\ ret' # ret
                    /\ ret'.op = "create_job"
                    /\ ret'.arg = Some(s)
                    /\ ret'.val # None)
                      => Get(ret'.val) \in Range(sessionInfo[s].job_ids)]_vars

\* C17: no step changes a session's backend_name, and every job in a
\* session's member list has the session's backend_name (equal token by
\* token, nothing normalised).
C17_SessionBackendFixed ==
    /\ [][\A s \in DOMAIN sessionInfo :
             sessionInfo'[s].backend_name = sessionInfo[s].backend_name]_vars
    /\ [](\A s \in DOMAIN sessionInfo :
             \A j \in Range(sessionInfo[s].job_ids) :
                jobInfo[j].backend_name = sessionInfo[s].backend_name)

\* a session has a member while the store also holds a job for another
\* backend, and a call for that backend on the session has just failed
C17_Witness ==
    /\ ret.op = "create_job"
    /\ ret.err = Some(ErrBackendMismatch)
    /\ \E s \in sessions :
          /\ Len(sessionInfo[s].job_ids) = 1
          /\ \E j \in Range(jobs) :
                /\ jobInfo[j].backend_name # sessionInfo[s].backend_name
                /\ jobInfo[j].session_id = None

\* s is an initial segment of r
IsPrefix(s, r) == Len(s) <= Len(r) /\ SubSeq(r, 1, Len(s)) = s

\* C18: a member list has no id twice; every id in it has a record in the
\* job store with that session_id, made by a create_job call that returned
\* the id or has only its queue.put left; and every step leaves the old list
\* as an initial segment of the new one (nothing removed or reordered).
C18_MemberListAppendOnly ==
    /\ [](\A s \in DOMAIN sessionInfo :
             LET ids == sessionInfo[s].job_ids IN
             /\ Cardinality(Range(ids)) = Len(ids)
             /\ \A j \in Range(ids) :
                   /\ j \in Range(jobs)
                   /\ jobInfo[j].session_id = Some(s)
                   /\ \/ j \in Range(pushed)
                      \/ \E t \in Threads : cj[t].pc = "put" /\ cj[t].job_id = Some(j))
    /\ [][\A s \in DOMAIN sessionInfo :
             IsPrefix(sessionInfo[s].job_ids, sessionInfo'[s].job_ids)]_vars

\* a session has two members in the order they were added: the first is
\* already running, the call for the second has its queue.put left
C18_Witness ==
    \E s \in sessions :
        /\ Len(sessionInfo[s].job_ids) = 2
        /\ jobInfo[sessionInfo[s].job_ids[1]].status = RUNNING
        /\ \E t \in Threads :
              cj[t].pc = "put" /\ cj[t].job_id = Some(sessionInfo[s].job_ids[2])

\* C19: cancel_session_jobs(S) changes exactly the jobs of the store whose
\* session_id is S and whose status is QUEUED: each becomes CANCELLED with
\* completed_at set and the session-cancellation message; it returns their
\* number; every other job, the queue and the session store are unchanged.
C19_CancelSessionJobs ==
    [][\A s \in SessionArgs :
          cancel_session_jobs(s) =>
             LET Q == { j \in Range(jobs) : /\ jobInfo[j].session_id = Some(s)
                                            /\ status(j) = QUEUED }
             IN  /\ ret'.op = "cancel_session_jobs"
                 /\ ret'.val = Some(Cardinality(Q))
                 /\ DOMAIN jobInfo' = DOMAIN jobInfo
                 /\ \A j \in DOMAIN jobInfo :
                       jobInfo'[j] =
                          IF j \in Q
                          THEN [jobInfo[j] EXCEPT
                                  !.status = CANCELLED,
                                  !.completed_at = Some(now),
                                  !.error_message = Some(MsgCancelledBySession)]
                          ELSE jobInfo[j]
                 /\ UNCHANGED <<jobs, queue, sessions, sessionInfo>>]_vars

\* cancel_session_jobs has returned 1: the queued job of the session is
\* CANCELLED, a queued job outside the session is still QUEUED
C19_Witness ==
    /\ ret.op = "cancel_session_jobs"
    /\ ret.val = Some(1)
    /\ \E a \in Range(jobs), b \in Range(jobs) :
          /\ jobInfo[a].session_id = ret.arg
          /\ status(a) = CANCELLED
          /\ jobInfo[a].error_message = Some(MsgCancelledBySession)
          /\ jobInfo[b].session_id = None
          /\ status(b) = QUEUED

\* C16: close_session and cancel_session on an existing session return true
\* and both leave the session with accepting_jobs = false, active = false
\* and every other field as it was; on a session that is already in that
\* state they change nothing (a repeated call, of either, in any order);
\* neither touches the job store or the queue.
C16_CloseCancelIdempotent ==
    [][\A s \in sessions :
          (close_session(s) \/ cancel_session(s))
             => /\ ret'.val = Some(TRUE)
                /\ ret'.arg = Some(s)
                /\ sessionInfo' = [sessionInfo EXCEPT
                                     ![s] = [@ EXCEPT !.accepting_jobs = FALSE,
                                                      !.active = FALSE]]
                /\ (~sessionInfo[s].accepting_jobs /\ ~sessionInfo[s].active)
                      => sessionInfo' = sessionInfo
                /\ UNCHANGED <<sessions, jobs, jobInfo, queue>>]_vars

\* both close_session and cancel_session have returned true for a session
\* with a member, cancel_session last
C16_Witness ==
    /\ ret.op = "cancel_session"
    /\ ret.val = Some(TRUE)
    /\ calls[Get(ret.arg)] = {"close_session", "cancel_session"}
    /\ ~sessionInfo[Get(ret.arg)].active
    /\ ~sessionInfo[Get(ret.arg)].accepting_jobs
    /\ sessionInfo[Get(ret.arg)].job_ids # <<>>

\* cancel_session(s) and then cancel_session_jobs(s) have both returned
Cascaded(s) == s \in DOMAIN calls /\ "cancel_session_jobs" \in calls[s]

\* C20: once cancel_session(S) and then cancel_session_jobs(S) have returned,
\* no job of S (no member of its list) is QUEUED, and no job of S that is
\* not RUNNING becomes RUNNING.
C20_CascadeCancel ==
    /\ [](\A s \in sessions :
             Cascaded(s)
                => \A j \in Range(sessionInfo[s].job_ids) : status(j) # QUEUED)
    /\ [][\A s \in sessions :
             Cascaded(s)
                => \A j \in Range(sessionInfo[s].job_ids) :
                      status(j) # RUNNING => jobInfo'[j].status # RUNNING]_vars

\* the descriptions of the errors that end a job's execution
ExecutionErrors ==
    { ErrInvalidBackend, ErrExecutorNotFound, ErrUnknownProgram, ErrExecutor }

\* C21: the step that ends an execution which cannot be dispatched (backend
\* name does not resolve, executor missing, unknown program kind) makes the
\* job FAILED with completed_at set and error_message set to that error;
\* every step that ends an execution leaves the job COMPLETED or FAILED (not
\* RUNNING) and the worker back at the head of its loop; and every FAILED
\* job has completed_at and one of the errors' descriptions.
C21_FailureIsRecorded ==
    /\ [][(wpc = "executing" /\ wpc' # wpc)
             => LET j == Get(wjob)
                    e == DispatchError(jobInfo[j])
                IN  /\ wpc' = "loop"
                    /\ jobInfo'[j].status \in {COMPLETED, FAILED}
                    /\ jobInfo'[j].completed_at = Some(now)
                    /\ e # None
                         => /\ jobInfo'[j].status = FAILED
                            /\ jobInfo'[j].error_message = e
                    /\ jobInfo'[j].status = FAILED
                         => jobInfo'[j].error_message \in
                               { Some(ErrExecutor), e } \ {None}]_vars
    /\ [](\A j \in DOMAIN jobInfo :
             status(j) = FAILED
                => /\ jobInfo[j].completed_at # None
                   /\ jobInfo[j].error_message \in { Some(m) : m \in ExecutionErrors })

\* one job failed because its program kind is unknown, another because the
\* Executor raised; the worker is back in its loop
C21_Witness ==
    /\ wpc \in {"loop", "get"}
    /\ \E a \in Range(jobs), b \in Range(jobs) :
          /\ status(a) = FAILED
          /\ jobInfo[a].error_message = Some(ErrUnknownProgram)
          /\ status(b) = FAILED
          /\ jobInfo[b].error_message = Some(ErrExecutor)

KnownPrograms == {"sampler", "estimator"}

\* C23: create_job stores a QUEUED record and returns its id whatever the
\* program kind; a job with an unknown kind never gets a result and is never
\* COMPLETED; the step that ends its execution makes it FAILED with the
\* unknown-program error (the error of the dispatch, not one raised by an
\* Executor).
C23_ProgramKindNotValidated ==
    /\ [][\A t \in Threads :
             create_job_store(t)
                => /\ jobInfo'[Len(jobInfo')].program_id = cj[t].program_id
                   /\ jobInfo'[Len(jobInfo')].status = QUEUED
                   /\ cj'[t].job_id = Some(Len(jobInfo'))]_vars
    /\ [][\A t \in Threads :
             create_job_put(t) => pushed' = Append(pushed, Get(cj[t].job_id))]_vars
    /\ [][(/\ wpc = "executing"
           /\ wpc' # wpc
           /\ jobInfo[Get(wjob)].program_id \notin KnownPrograms)
             => /\ jobInfo'[Get(wjob)].status = FAILED
                /\ jobInfo'[Get(wjob)].error_message = Some(ErrUnknownProgram)]_vars
    /\ [](\A j \in DOMAIN jobInfo :
             jobInfo[j].program_id \notin KnownPrograms
                => /\ status(j) # COMPLETED
                   /\ jobInfo[j].result_data = None
                   /\ status(j) = FAILED
                        => jobInfo[j].error_message = Some(ErrUnknownProgram))

\* create_job returned ids for two jobs of an unknown program kind: the
\* first was executed and is FAILED with the unknown-program error, the
\* second waits in the queue
C23_Witness ==
    /\ Len(pushed) = 2
    /\ \A j \in Range(pushed) : jobInfo[j].program_id \notin KnownPrograms
    /\ status(pushed[1]) = FAILED
    /\ jobInfo[pushed[1]].started_at # None
    /\ jobInfo[pushed[1]].error_message = Some(ErrUnknownProgram)
    /\ status(pushed[2]) = QUEUED
    /\ queue = <<pushed[2]>>

\* C24: a job has result_data only when it is COMPLETED and error_message
\* only when it is FAILED or CANCELLED (so a COMPLETED job has no error
\* message and a FAILED or CANCELLED job no result).
C24_ResultAndErrorMatchStatus ==
    \A j \in DOMAIN jobInfo :
        /\ jobInfo[j].result_data # None => status(j) = COMPLETED
        /\ jobInfo[j].error_message # None => status(j) \in {FAILED, CANCELLED}

\* C25: in every state (each is one a reader holding the lock can see) the
\* timestamps match the status: QUEUED has neither, RUNNING has started_at
\* only, COMPLETED and FAILED have both, CANCELLED has completed_at only.
C25_TimestampsMatchStatus ==
    \A j \in DOMAIN jobInfo :
        LET hasStart == jobInfo[j].started_at # None
            hasEnd == jobInfo[j].completed_at # None
        IN  /\ status(j) = QUEUED => ~hasStart /\ ~hasEnd
            /\ status(j) = RUNNING => hasStart /\ ~hasEnd
            /\ status(j) \in {COMPLETED, FAILED} => hasStart /\ hasEnd
            /\ status(j) = CANCELLED => ~hasStart /\ hasEnd

\* C26: the record create_job stores (its backend name resolves) has status
\* QUEUED, no started_at, no completed_at, no result and no error message;
\* get_job returns it from then on; and a record changes only in a step of
\* the worker executing that job or in a cancel that takes it from QUEUED to
\* CANCELLED, so a job that is still QUEUED is as it was stored.
C26_StoredRecord ==
    /\ [][\A t \in Threads :
             create_job_store(t)
                => LET j == Len(jobInfo) + 1 IN
                   /\ parse_backend_name(cj[t].backend_name) # None
                   /\ get_job(j) = None
                   /\ jobs' = Append(jobs, j)
                   /\ jobInfo'[j] = [program_id |-> cj[t].program_id,
                                     backend_name |-> cj[t].backend_name,
                                     session_id |-> cj[t].session_id,
                                     status |-> QUEUED,
                                     created_at |-> now,
                                     started_at |-> None,
                                     completed_at |-> None,
                                     result_data |-> None,
                                     error_message |-> None]]_vars
    /\ [][\A j \in DOMAIN jobInfo :
             jobInfo'[j] # jobInfo[j]
                => \/ /\ wjob = Some(j)
                      /\ wpc \in {"mark_running", "executing"}
                      /\ wpc' # wpc
                   \/ /\ status(j) = QUEUED
                      /\ jobInfo'[j].status = CANCELLED
                      /\ wpc' = wpc]_vars
    /\ [](\A j \in Range(pushed) : get_job(j) # None)
    /\ [](\A j \in Range(jobs) :
             status(j) = QUEUED
                => /\ Get(get_job(j)).started_at = None
                   /\ Get(get_job(j)).completed_at = None
                   /\ Get(get_job(j)).result_data = None
                   /\ Get(get_job(j)).error_message = None)

\* create_job has stored and enqueued a job that nothing has touched yet,
\* while an earlier job is running
C26_Witness ==
    /\ Len(queue) = 1
    /\ status(queue[1]) = QUEUED
    /\ Get(get_job(queue[1])).started_at = None
    /\ \E k \in Range(jobs) : status(k) = RUNNING
    /\ \A t \in Threads : cj[t].pc = "idle"

\* create_job calls that have stored a record and not yet returned or failed
StoredInFlight ==
    { t \in Threads : cj[t].pc \in {"add_to_session", "rollback", "put"} }

\* C27: the ids create_job returned are all distinct; whenever no create_job
\* call is between its store and its return, the keys of list_jobs are
\* exactly those ids (so there are as many entries as successful calls); and
\* each entry of list_jobs is what get_job returns for its id, while get_job
\* finds nothing for an id that is not a key.
C27_ListJobsRoundTrip ==
    /\ [](Cardinality(Range(pushed)) = Len(pushed))
    /\ [](StoredInFlight = {}
             => /\ DOMAIN list_jobs = Range(pushed)
                /\ Cardinality(DOMAIN list_jobs) = Len(pushed))
    /\ [](\A j \in JobArgs :
             IF j \in DOMAIN list_jobs
             THEN get_job(j) = Some(list_jobs[j])
             ELSE get_job(j) = None)

\* two create_job calls returned; one job has been executed and is no
\* longer in the queue: list_jobs has the two ids
C27_Witness ==
    /\ Len(pushed) = 2
    /\ StoredInFlight = {}
    /\ DOMAIN list_jobs = {pushed[1], pushed[2]}
    /\ status(pushed[1]) = COMPLETED
    /\ queue = <<pushed[2]>>

\* C28: get_job finds a job for every id create_job has returned, in every
\* later state: whatever the job's status, and whether its session is open,
\* closed, cancelled or removed by cleanup_expired_sessions.
C28_JobsNeverDeleted ==
    /\ [](\A j \in Range(pushed) : get_job(j) # None)
    /\ [][\A j \in Range(pushed) : j \in Range(jobs')]_vars

\* the session of an executed job and of a cancelled job was removed by the
\* sweep; get_job still finds both
C28_Witness ==
    /\ Len(pushed) = 2
    /\ \A j \in Range(pushed) :
          /\ jobInfo[j].session_id # None
          /\ Get(jobInfo[j].session_id) \notin sessions
          /\ get_job(j) # None
    /\ \E a \in Range(pushed), b \in Range(pushed) :
          status(a) \in {COMPLETED, FAILED} /\ status(b) = CANCELLED

\* C29: what a caller got from get_job or get_session stays as it was at
\* the call, whatever happens to the job or session in its store afterwards.
C29_SnapshotsIndependent ==
    held # None => HeldValue = Get(held).seen

\* executor names a caller may ask about: the registered one, an unknown one
ExecutorArgs == executors \cup {<<"custatevec">>}

\* the jobs of the store that are QUEUED or RUNNING
ActiveJobs == { j \in Range(jobs) : status(j) \in {QUEUED, RUNNING} }

\* C30: get_queue_length() is the number of jobs of the store that are
\* QUEUED or RUNNING, and get_queue_length(e) the number of those whose
\* backend name resolves to executor e; the ids in the FIFO queue play no
\* part (a CANCELLED job still in the queue is not counted).
C30_QueueLength ==
    /\ get_queue_length(None) = Cardinality(ActiveJobs)
    /\ \A x \in ExecutorArgs :
          get_queue_length(Some(x)) =
             Cardinality({ j \in ActiveJobs :
                             \E m \in KnownMetadata :
                                parse_backend_name(jobInfo[j].backend_name)
                                   = Some(<<m, x>>) })

\* a cancelled job and a queued job are both in the FIFO queue while
\* get_queue_length() is 1
C30_Witness ==
    /\ Len(queue) = 2
    /\ status(queue[1]) = CANCELLED
    /\ status(queue[2]) = QUEUED
    /\ get_queue_length(None) = 1
    /\ get_queue_length(Some(<<"aer">>)) = 1
    /\ get_queue_length(Some(<<"custatevec">>)) = 0

\* C31: shutdown changes no job, no queue entry and no session; after it
\* the worker reaches the end of its loop and stays there; once the worker
\* has stopped, a QUEUED job stays QUEUED unless a cancel call makes it
\* CANCELLED (ids can still be put on the queue, none is taken off); and a
\* job that is RUNNING after shutdown still becomes COMPLETED or FAILED.
C31_ShutdownStopsWorker ==
    /\ [][shutdown_flag' # shutdown_flag
             => /\ shutdown_flag'
                /\ UNCHANGED <<jobs, jobInfo, queue, sessions, sessionInfo, wpc, wjob>>]_vars
    /\ [][wpc = "stopped"
             => /\ wpc' = "stopped"
                /\ IsPrefix(queue, queue')
                /\ \A j \in DOMAIN jobInfo :
                      /\ status(j) = QUEUED
                           => jobInfo'[j].status \in {QUEUED, CANCELLED}
                      /\ status(j) # RUNNING => jobInfo'[j].status # RUNNING]_vars
    /\ shutdown_flag ~> (wpc = "stopped")
    /\ \A j \in JobIds :
          (shutdown_flag /\ j \in DOMAIN jobInfo /\ status(j) = RUNNING)
             ~> (j \in DOMAIN jobInfo /\ status(j) \in {COMPLETED, FAILED})

\* the worker has stopped after finishing the job it was running; a job
\* admitted since waits in the queue, still QUEUED
C31_Witness ==
    /\ wpc = "stopped"
    /\ Len(pushed) = 2
    /\ status(pushed[1]) \in {COMPLETED, FAILED}
    /\ queue = <<pushed[2]>>
    /\ status(pushed[2]) = QUEUED

\* the jobs of session s that wait in the queue or are being executed
OpenJobsOf(s) ==
    { j \in Range(sessionInfo[s].job_ids) :
         \/ status(j) = QUEUED /\ j \in Range(queue)
         \/ status(j) = RUNNING }

\* C32: the step that closes a session (active turns false) changes no job
\* record, no entry of the job store and no queue entry; a job becomes
\* CANCELLED only with the message of a cancel call; and every job of a
\* closed session that is QUEUED in the queue or RUNNING becomes COMPLETED
\* or FAILED unless such a cancel call makes it CANCELLED.
C32_CloseIsGraceful ==
    /\ [][\A s \in sessions :
             (sessionInfo[s].active /\ ~sessionInfo'[s].active)
                => UNCHANGED <<jobs, jobInfo, queue, wpc, wjob>>]_vars
    /\ [][\A j \in DOMAIN jobInfo :
             (status(j) # CANCELLED /\ jobInfo'[j].status = CANCELLED)
                => /\ status(j) = QUEUED
                   /\ jobInfo'[j].error_message \in CancelMessages]_vars
    /\ \A j \in JobIds :
          (\E s \in sessions : ~sessionInfo[s].active /\ j \in OpenJobsOf(s))
             ~> (/\ j \in DOMAIN jobInfo
                 /\ \/ status(j) \in {COMPLETED, FAILED}
                    \/ /\ status(j) = CANCELLED
                       /\ jobInfo[j].error_message \in CancelMessages)

\* a closed session with one job being executed and one waiting in the queue
C32_Witness ==
    \E s \in sessions :
       /\ ~sessionInfo[s].active
       /\ Len(sessionInfo[s].job_ids) = 2
       /\ status(sessionInfo[s].job_ids[1]) = RUNNING
       /\ status(sessionInfo[s].job_ids[2]) = QUEUED
       /\ sessionInfo[s].job_ids[2] \in Range(queue)

\* C32 as stated: every job of a closed session that is QUEUED in the queue
\* or RUNNING becomes COMPLETED or FAILED.
C32_ClosedJobsAreExecuted ==
    \A j \in JobIds :
       (\E s \in sessions : ~sessionInfo[s].active /\ j \in OpenJobsOf(s))
          ~> (j \in DOMAIN jobInfo /\ status(j) \in {COMPLETED, FAILED})

\* C34: update_session(id, v) on a stored session returns true and leaves
\* the session with accepting_jobs = v and every other field as it was;
\* the other sessions, the set of stored sessions, the jobs and the queue
\* are unchanged.
C34_UpdateSessionFrame ==
    [][\A s \in sessions, v \in BOOLEAN :
          update_session(s, v)
             => /\ ret'.op = "update_session"
                /\ ret'.arg = Some(s)
                /\ ret'.val = Some(TRUE)
                /\ ret'.err = None
                /\ sessionInfo'[s].accepting_jobs = v
                /\ \A f \in {"active", "backend_name", "mode", "max_ttl",
                              "created_at", "job_ids"} :
                      sessionInfo'[s][f] = sessionInfo[s][f]
                /\ DOMAIN sessionInfo' = DOMAIN sessionInfo
                /\ \A o \in DOMAIN sessionInfo \ {s} :
                      sessionInfo'[o] = sessionInfo[o]
                /\ UNCHANGED <<sessions, jobs, jobInfo, queue>>]_vars

\* update_session(id, true) has returned true on a closed session that has
\* a member: accepting_jobs is set, active is still false
C34_Witness ==
    /\ ret.op = "update_session"
    /\ ret.val = Some(TRUE)
    /\ "close_session" \in calls[Get(ret.arg)]
    /\ sessionInfo[Get(ret.arg)].accepting_jobs
    /\ ~sessionInfo[Get(ret.arg)].active
    /\ sessionInfo[Get(ret.arg)].job_ids # <<>>

\* ids that are not keys of the job store and of the session store
UnknownJobs == JobArgs \ Range(jobs)
UnknownSessions == SessionArgs \ sessions

\* C35: for an id that is not in the store, get_job and get_session give
\* None, add_job_to_session and validate_job_backend give false and leave
\* the session store as it is, and update_session, close_session,
\* cancel_session and cancel_job return false without an error and leave
\* the sessions, the jobs and the queue unchanged.
C35_NotFoundIsAValue ==
    /\ [](\A j \in UnknownJobs : get_job(j) = None)
    /\ [](\A s \in UnknownSessions :
             /\ get_session(s) = None
             /\ ~add_job_to_session_ok(s)
             /\ \A j \in JobArgs : add_job_to_session_store(s, j) = sessionInfo
             /\ \A b \in BackendNames : ~validate_job_backend(s, b))
    /\ [][\A s \in UnknownSessions :
             ((\E v \in BOOLEAN : update_session(s, v))
                 \/ close_session(s) \/ cancel_session(s))
                => /\ ret'.arg = Some(s)
                   /\ ret'.val = Some(FALSE)
                   /\ ret'.err = None
                   /\ UNCHANGED <<sessions, sessionInfo, jobs, jobInfo, queue>>]_vars
    /\ [][\A j \in UnknownJobs :
             cancel_job(j)
                => /\ ret' = [op |-> "cancel_job", arg |-> Some(j),
                              val |-> Some(FALSE), err |-> None]
                   /\ UNCHANGED <<sessions, sessionInfo, jobs, jobInfo, queue>>]_vars

\* cancel_job has returned false for the id of a job that create_job stored
\* and deleted again, while the session store holds a session
C35_Witness ==
    /\ ret.op = "cancel_job"
    /\ ret.val = Some(FALSE)
    /\ Get(ret.arg) \in DOMAIN jobInfo
    /\ Get(ret.arg) \in UnknownJobs
    /\ status(Get(ret.arg)) = QUEUED
    /\ sessions # {}

\* create_job calls whose admission is failing: add_job_to_session has
\* returned false and the clean-up has not run yet
FailingCalls == { t \in Threads : cj[t].pc = "rollback" }

\* C37: the job record of a create_job call whose admission fails is not
\* visible to the other threads: get_job does not find it, list_jobs does
\* not contain it, get_queue_length does not count it and
\* cancel_session_jobs does not select it.
C37_FailedAdmissionInvisible ==
    \A t \in FailingCalls :
       LET j == Get(cj[t].job_id) IN
       /\ get_job(j) = None
       /\ j \notin DOMAIN list_jobs
       /\ get_queue_length(None) = CountActive(Remove(jobs, j), None)
       /\ j \notin SessionQueuedJobs(Get(cj[t].session_id))

\* no value occurs twice in the sequence
NoDuplicates(seq) ==
    \A i \in DOMAIN seq, k \in DOMAIN seq : i # k => seq[i] # seq[k]

\* C38: no job id is put on the queue twice, every stored job whose
\* create_job call has ended was put on it, no id is in the queue twice or
\* in the queue and in the worker's hands, only ids taken from the queue
\* are dispatched, and no job is made RUNNING twice.
C38_QueuedOnceRunOnce ==
    /\ [](/\ NoDuplicates(pushed)
          /\ NoDuplicates(queue)
          /\ NoDuplicates(started)
          /\ Range(jobs) \ { Get(cj[t].job_id) : t \in StoredInFlight }
                \subseteq Range(pushed)
          /\ Range(queue) \subseteq Range(pushed)
          /\ Range(started) \subseteq Range(pushed) \ Range(queue)
          /\ wjob # None => Get(wjob) \in Range(pushed) \ Range(queue))
    /\ [][\A j \in DOMAIN jobInfo :
             (status(j) # RUNNING /\ jobInfo'[j].status = RUNNING)
                => /\ j \notin Range(started)
                   /\ started' = Append(started, j)]_vars

\* two jobs have been dispatched, one after the other, and both have ended
C38_Witness ==
    /\ Len(started) = 2
    /\ queue = <<>>
    /\ \A j \in Range(started) : status(j) \in {COMPLETED, FAILED}

\* the jobs that belong to a session that is no longer stored
JobsOfRemovedSessions ==
    { j \in Range(jobs) : /\ jobInfo[j].session_id # None
                          /\ Get(jobInfo[j].session_id) \notin sessions }

C36_LockFreeWhileExecuting ==
    wpc = "executing"
       => /\ job_lock = None
          /\ \A j \in JobArgs : ENABLED cancel_job(j)
          /\ \A s \in SessionArgs : ENABLED cancel_session_jobs(s)
          /\ \A t \in Threads :
                /\ cj[t].pc = "store" => ENABLED create_job_store(t)
                /\ cj[t].pc = "rollback" => ENABLED create_job_rollback(t)

\* the worker is inside an Executor call while one create_job call is about
\* to store its record, another job waits in the queue and can be cancelled
C36_Witness ==
    /\ wpc = "executing"
    /\ status(Get(wjob)) = RUNNING
    /\ \E t \in Threads : cj[t].pc = "store"

\* the step create_job call t takes next
NextStepOf(t) ==
    \/ create_job_validate(t)
    \/ create_job_check_accepting(t)
    \/ create_job_store(t)
    \/ create_job_add(t)
    \/ create_job_rollback(t)
    \/ create_job_put(t)

\* C39: the two locks are never held at the same time; a create_job call
\* that is about to take the session store lock (validate_job_backend,
\* add_job_to_session) does not hold the job store lock, and one that is
\* about to take the job store lock does not hold the session store lock;
\* the next step of every create_job call in progress and of the running
\* worker can always be taken, and so can every cancel and session
\* operation.
C39_NoLockNesting ==
    /\ job_lock = None \/ session_lock = None
    /\ \A t \in Threads :
          /\ cj[t].pc \in {"validate_backend", "add_to_session"}
                => job_lock # Some(t)
          /\ cj[t].pc \in {"store", "rollback"} => session_lock # Some(t)
    /\ \A t \in InFlight : ENABLED NextStepOf(t)
    /\ wpc # "stopped" => ENABLED Worker
    /\ \A j \in JobArgs : ENABLED cancel_job(j)
    /\ \A s \in SessionArgs :
          /\ ENABLED cancel_session_jobs(s)
          /\ ENABLED close_session(s)
          /\ ENABLED cancel_session(s)
          /\ \A v \in BOOLEAN : ENABLED update_session(s, v)

\* one create_job call is about to call add_job_to_session while another is
\* about to store its record and the worker is about to read the job store
C39_Witness ==
    /\ \E t \in Threads : cj[t].pc = "add_to_session"
    /\ \E t \in Threads : cj[t].pc = "store"
    /\ wpc = "get"

====
